---- MODULE Spec2Model ----
(***************************************************************************)
(* The room registry and session manager of server.js: the process-wide   *)
(* `rooms` object, the per-socket `socket.data`, and the six event         *)
(* handlers registered on every connection.  Each handler runs to          *)
(* completion (single-threaded event loop), so each is one action.         *)
(*                                                                         *)
(* Strings are sequences of one-character strings, so that trim() and      *)
(* Number() are computed rather than assumed.  The empty sequence also     *)
(* stands for an omitted (undefined/null) string property: every place     *)
(* the source reads such a property treats "" and undefined alike          *)
(* (`roomId && ...`, `secretKey || ""`, `!name`, `!roomId`).               *)
(***************************************************************************)
EXTENDS Integers, Sequences, FiniteSets, TLC

VARIABLES
    rooms,       \* rooms[roomId]: the registry, a function on the ids in use
    sockets,     \* sockets[id]: socket.data of every connected socket
    nextSocket,  \* the id the next connection gets (socket ids are never reused)
    saved,       \* history: saved[<<roomId, key>>], the card last saved for a Player
    ack,         \* what the last handler passed to its callback
    emitted      \* what the last handler emitted through io.to(...).emit

vars == <<rooms, sockets, nextSocket, saved, ack, emitted>>

-----------------------------------------------------------------------------
(* Bounds of the model *)

MaxSockets == 2      \* connections opened during a run

-----------------------------------------------------------------------------
(* JavaScript values *)

NoSocket == 0                               \* hostSocketId / socketId === null
JsNull == [t |-> "null", v |-> <<>>]        \* cardNumbers: null
JsArray(s) == [t |-> "array", v |-> s]      \* a card layout
JsNum(n) == [t |-> "number", v |-> n]       \* a finite number
JsStr(s) == [t |-> "string", v |-> s]       \* a string payload
JsNaN == [t |-> "NaN", v |-> 0]             \* the result of a failed Number()

Space == " "
Digits == <<"0", "1", "2", "3", "4", "5", "6", "7", "8", "9">>

IsDigit(ch) == \E i \in 1..Len(Digits) : Digits[i] = ch
DigitVal(ch) == (CHOOSE i \in 1..Len(Digits) : Digits[i] = ch) - 1

\* String.prototype.trim
RECURSIVE TrimLeft(_)
TrimLeft(s) == IF s # <<>> /\ Head(s) = Space THEN TrimLeft(Tail(s)) ELSE s
RECURSIVE TrimRight(_)
TrimRight(s) ==
    IF s # <<>> /\ s[Len(s)] = Space THEN TrimRight(SubSeq(s, 1, Len(s) - 1)) ELSE s
Trim(s) == TrimRight(TrimLeft(s))

\* the decimal value of a string of digits
RECURSIVE DigitsValue(_)
DigitsValue(s) ==
    IF s = <<>> THEN 0
    ELSE 10 * DigitsValue(SubSeq(s, 1, Len(s) - 1)) + DigitVal(s[Len(s)])

\* Number(x): a number is itself; a string is trimmed and read as decimal
\* digits, "" being 0 and any other text NaN; undefined is NaN
ToNumber(x) ==
    CASE x.t = "number" -> x
      [] x.t = "string" ->
            IF \A i \in 1..Len(Trim(x.v)) : IsDigit(Trim(x.v)[i])
            THEN JsNum(DigitsValue(Trim(x.v)))
            ELSE JsNaN
      [] OTHER -> JsNaN

IsFinite(x) == x.t = "number"

\* Number.prototype.toString of a non-negative integer
RECURSIVE NumToString(_)
NumToString(n) ==
    IF n < 10 THEN <<Digits[n + 1]>>
    ELSE NumToString(n \div 10) \o <<Digits[(n % 10) + 1]>>

\* x || null, for the values a card can be
OrNull(x) == IF x.t = "null" THEN JsNull ELSE x

-----------------------------------------------------------------------------
(* Payloads the clients send, and what Math.random() returns *)

\* a room id, as typed by a host or as returned by
\* Math.random().toString(36).slice(2, 8)
RoomA == <<"r", "o", "o", "m", "0", "1">>
RoomPadded == <<Space>> \o RoomA \o <<Space>>
RoomB == <<"r", "o", "o", "m", "0", "2">>

KeyBase == 1000      \* generateSecretKey: Math.floor(1000 + ...)

\* generateSecretKey(), random being Math.floor(Math.random() * 9000)
generateSecretKey(random) == NumToString(KeyBase + random)

Key0 == generateSecretKey(0)
Key1 == generateSecretKey(1)
Key0Padded == <<Space>> \o Key0
Key1Padded == <<Space>> \o Key1

NameP == <<"P">>
NameQ == <<"Q">>
Blank == <<Space>>
Omitted == <<>>

\* The inputs of the host-side model: every shape of roomId and range of
\* host:createRoom, every shape of number of host:drawNumber, one player;
\* the other handlers are sent the id of the room and an id that names none.
HostInputs ==
    [createIds |-> {Omitted, RoomA, RoomPadded},
     generatedIds |-> {RoomA},
     ranges |-> { <<JsNum(1), JsNum(2)>>,
                  <<JsStr(<<"1">>), JsStr(<<Space, "1">>)>>,
                  <<JsNum(2), JsNum(1)>>,
                  <<JsNaN, JsNum(1)>> },
     roomIds |-> {RoomA, RoomPadded},
     names |-> {NameP, Blank},
     joinKeys |-> {Omitted, Blank, Key0Padded},
     generatedKeys |-> {Key0},
     saveKeys |-> {Key0, Key0Padded},
     cards |-> {JsArray(<<1>>)},
     numbers |-> {JsNum(1), JsNum(2), JsStr(<<"1">>), JsNaN}]

\* The inputs of the player-side model: every shape of name and secretKey of
\* player:joinRoom, two keys, two cards, one range and one number.
PlayerInputs ==
    [createIds |-> {RoomA},
     generatedIds |-> {RoomA},
     ranges |-> { <<JsNum(1), JsNum(2)>> },
     roomIds |-> {RoomA},
     names |-> {NameP, NameQ, Blank},
     joinKeys |-> {Omitted, Key0, Key1Padded},
     generatedKeys |-> {Key0, Key1},
     saveKeys |-> {Key0, Key1},
     cards |-> {JsArray(<<>>), JsArray(<<1>>)},
     numbers |-> {JsNum(1)}]

\* The inputs of the two-room model: two room ids, and one value of
\* everything else.
RoomInputs ==
    [createIds |-> {Omitted, RoomA, RoomB},
     generatedIds |-> {RoomA},
     ranges |-> { <<JsNum(1), JsNum(2)>> },
     roomIds |-> {RoomA, RoomB},
     names |-> {NameP},
     joinKeys |-> {Key0},
     generatedKeys |-> {Key0},
     saveKeys |-> {Key0},
     cards |-> {JsArray(<<1>>)},
     numbers |-> {JsNum(1)}]

-----------------------------------------------------------------------------
(* State *)

NoData == [role |-> "", roomId |-> <<>>, secretKey |-> <<>>]
NoAck == [ok |-> FALSE, message |-> "none"]
NoEmit == [event |-> "none"]
Fail(message) == [ok |-> FALSE, message |-> message]

Connected == DOMAIN sockets

\* obj[k] = v
With(obj, k, v) == [x \in DOMAIN obj \cup {k} |-> IF x = k THEN v ELSE obj[x]]

Init ==
    /\ rooms = <<>>
    /\ sockets = <<>>
    /\ nextSocket = 1
    /\ saved = <<>>
    /\ ack = NoAck
    /\ emitted = NoEmit

-----------------------------------------------------------------------------
(* emitPlayersUpdate *)

\* the array index a property key is, for the keys of the model
ArrayIndex == [k \in {Key0, Key1} |-> DigitsValue(k)]

\* Object.values(players): the keys of the model are canonical decimal
\* strings, which a JavaScript object iterates in ascending numeric order
RECURSIVE ValuesOf(_, _)
ValuesOf(players, keys) ==
    IF keys = {} THEN <<>>
    ELSE LET k == CHOOSE k \in keys :
                     \A j \in keys : ArrayIndex[k] <= ArrayIndex[j]
         IN <<players[k]>> \o ValuesOf(players, keys \ {k})
ObjectValues(players) == ValuesOf(players, DOMAIN players)

\* a filter that lets every Player through
IsOnlineAlways(p) == TRUE

IsOnline(p) == p.socketId # NoSocket
OnlineNames(players) ==
    LET online == SelectSeq(ObjectValues(players), IsOnline)
    IN [i \in 1..Len(online) |-> online[i].name]

\* what emitPlayersUpdate(roomId) emits on the registry rs
emitPlayersUpdate(rs, roomId) ==
    IF roomId \notin DOMAIN rs \/ rs[roomId].hostSocketId = NoSocket
    THEN NoEmit
    ELSE [event |-> "room:playersUpdate",
          to |-> rs[roomId].hostSocketId,
          names |-> OnlineNames(rs[roomId].players)]

-----------------------------------------------------------------------------
(* io.on("connection") *)

Connect ==
    /\ nextSocket <= MaxSockets
    /\ sockets' = With(sockets, nextSocket, NoData)
    /\ nextSocket' = nextSocket + 1
    /\ ack' = NoAck
    /\ emitted' = NoEmit
    /\ UNCHANGED <<rooms, saved>>

-----------------------------------------------------------------------------
(* host:createRoom *)

ValidRange(min, max) == IsFinite(min) /\ IsFinite(max) /\ ~(min.v > max.v)

\* a host-present check that never fires
HostPresentNever(room) == FALSE

HostPresent(room) == room.hostSocketId # NoSocket

\* a rejoin that starts the game over
RejoinedRoomReset(room, socket, min, max) ==
    [room EXCEPT !.hostSocketId = socket, !.minNumber = min, !.maxNumber = max,
                 !.drawnNumbers = <<>>]

\* the room after a host rejoins it
RejoinedRoom(room, socket, min, max) ==
    [room EXCEPT !.hostSocketId = socket, !.minNumber = min, !.maxNumber = max]

\* a new room that forgets to bind its creator
NewRoomUnbound(id, socket, min, max) ==
    [roomId |-> id,
     hostSocketId |-> NoSocket,
     minNumber |-> min,
     maxNumber |-> max,
     drawnNumbers |-> <<>>,
     players |-> <<>>]

NewRoom(id, socket, min, max) ==
    [roomId |-> id,
     hostSocketId |-> socket,
     minNumber |-> min,
     maxNumber |-> max,
     drawnNumbers |-> <<>>,
     players |-> <<>>]

\* the id of the room to create
NewRoomId(inputId, generated) == IF inputId # <<>> THEN inputId ELSE generated

CreateRoom(socket, roomId, minNumber, maxNumber, generated) ==
    LET inputId == Trim(roomId)
        min == ToNumber(minNumber)
        max == ToNumber(maxNumber)
        id == NewRoomId(inputId, generated)
    IN
    /\ socket \in Connected
    /\ UNCHANGED nextSocket
    /\ IF ~ValidRange(min, max) THEN
            /\ ack' = Fail("InvalidRange")
            /\ emitted' = NoEmit
            /\ UNCHANGED <<rooms, sockets, saved>>
       ELSE IF inputId # <<>> /\ inputId \in DOMAIN rooms THEN
            IF HostPresent(rooms[inputId]) THEN
                /\ ack' = Fail("HostAlreadyPresent")
                /\ emitted' = NoEmit
                /\ UNCHANGED <<rooms, sockets, saved>>
            ELSE
                /\ rooms' = With(rooms, inputId,
                                 RejoinedRoom(rooms[inputId], socket, min.v, max.v))
                /\ sockets' = With(sockets, socket,
                                   [sockets[socket] EXCEPT !.role = "host",
                                                           !.roomId = inputId])
                /\ emitted' = emitPlayersUpdate(rooms', inputId)
                /\ ack' = [ok |-> TRUE, rejoin |-> TRUE, room |-> rooms'[inputId]]
                /\ UNCHANGED saved
       ELSE
            /\ rooms' = With(rooms, id, NewRoom(id, socket, min.v, max.v))
            /\ sockets' = With(sockets, socket,
                               [sockets[socket] EXCEPT !.role = "host", !.roomId = id])
            /\ emitted' = NoEmit
            /\ ack' = [ok |-> TRUE, rejoin |-> FALSE, room |-> rooms'[id]]
            /\ saved' = [x \in {y \in DOMAIN saved : y[1] # id} |-> saved[x]]

-----------------------------------------------------------------------------
(* player:joinRoom *)

BlankName(name) == name = <<>> \/ Trim(name) = <<>>

\* the key the join resolves to: the trimmed secretKey, or a generated one
ResolveKey(secretKey, generated) ==
    IF Trim(secretKey) = <<>> THEN generated ELSE Trim(secretKey)

\* a join that always starts a new record
JoinedPlayerFresh(players, key, name, socket) ==
    [name |-> name, secretKey |-> key, socketId |-> socket, cardNumbers |-> JsNull]

\* the Player record the join leaves under key
JoinedPlayer(players, key, name, socket) ==
    LET player == IF key \in DOMAIN players
                  THEN players[key]
                  ELSE [name |-> name, secretKey |-> key, socketId |-> NoSocket,
                        cardNumbers |-> JsNull]
    IN [player EXCEPT !.name = name, !.socketId = socket]

JoinRoom(socket, roomId, name, secretKey, generated) ==
    LET key == ResolveKey(secretKey, generated)
    IN
    /\ socket \in Connected
    /\ UNCHANGED nextSocket
    /\ IF roomId \notin DOMAIN rooms THEN
            /\ ack' = Fail("RoomNotFound")
            /\ emitted' = NoEmit
            /\ UNCHANGED <<rooms, sockets, saved>>
       ELSE IF BlankName(name) THEN
            /\ ack' = Fail("MissingName")
            /\ emitted' = NoEmit
            /\ UNCHANGED <<rooms, sockets, saved>>
       ELSE
            LET room == rooms[roomId]
                existed == key \in DOMAIN room.players
                player == JoinedPlayer(room.players, key, name, socket)
            IN
            /\ rooms' = With(rooms, roomId,
                             [room EXCEPT !.players = With(room.players, key, player)])
            /\ sockets' = With(sockets, socket,
                               [role |-> "player", roomId |-> roomId, secretKey |-> key])
            /\ saved' = IF existed THEN saved ELSE With(saved, <<roomId, key>>, JsNull)
            /\ emitted' = emitPlayersUpdate(rooms', roomId)
            /\ ack' = [ok |-> TRUE,
                       name |-> name,
                       secretKey |-> key,
                       rejoin |-> existed,
                       cardNumbers |-> OrNull(player.cardNumbers),
                       room |-> [roomId |-> roomId,
                                 minNumber |-> room.minNumber,
                                 maxNumber |-> room.maxNumber,
                                 drawnNumbers |-> room.drawnNumbers]]

-----------------------------------------------------------------------------
(* player:saveCard *)

\* a save that keeps the card a Player already has
SavedPlayerOnce(player, cardNumbers) ==
    IF player.cardNumbers = JsNull
    THEN [player EXCEPT !.cardNumbers = cardNumbers]
    ELSE player

SavedPlayer(player, cardNumbers) == [player EXCEPT !.cardNumbers = cardNumbers]

SaveCard(socket, roomId, secretKey, cardNumbers) ==
    /\ socket \in Connected
    /\ emitted' = NoEmit
    /\ UNCHANGED <<sockets, nextSocket>>
    /\ IF roomId \notin DOMAIN rooms \/ secretKey \notin DOMAIN rooms[roomId].players
       THEN /\ ack' = [ok |-> FALSE]
            /\ UNCHANGED <<rooms, saved>>
       ELSE /\ rooms' = With(rooms, roomId,
                   [rooms[roomId] EXCEPT
                       !.players = With(@, secretKey,
                                        SavedPlayer(@[secretKey], cardNumbers))])
            /\ saved' = With(saved, <<roomId, secretKey>>, cardNumbers)
            /\ ack' = [ok |-> TRUE]

-----------------------------------------------------------------------------
(* host:drawNumber *)

Includes(seq, n) == \E i \in 1..Len(seq) : seq[i] = n

IsHost(socket, room) == socket = room.hostSocketId

\* a draw that never looks at the history
DrawnAlways(drawnNumbers, n) == Append(drawnNumbers, n)

\* a draw that pushes the number before it asks who is calling
DrawNumberEager(socket, roomId, number) ==
    LET n == ToNumber(number)
    IN
    /\ socket \in Connected
    /\ UNCHANGED <<sockets, nextSocket, saved>>
    /\ emitted' = NoEmit
    /\ IF roomId \notin DOMAIN rooms THEN
            /\ ack' = Fail("NoRoom")
            /\ UNCHANGED rooms
       ELSE IF ~IsFinite(n) THEN
            /\ ack' = Fail("InvalidNumber")
            /\ UNCHANGED rooms
       ELSE
            /\ rooms' = With(rooms, roomId,
                   [rooms[roomId] EXCEPT !.drawnNumbers = Append(@, n.v)])
            /\ ack' = IF socket = rooms[roomId].hostSocketId
                      THEN [ok |-> TRUE] ELSE Fail("NotHost")

\* drawnNumbers after n is drawn
Drawn(drawnNumbers, n) ==
    IF ~Includes(drawnNumbers, n) THEN Append(drawnNumbers, n) ELSE drawnNumbers

DrawNumber(socket, roomId, number) ==
    LET n == ToNumber(number)
    IN
    /\ socket \in Connected
    /\ UNCHANGED <<sockets, nextSocket, saved>>
    /\ IF roomId \notin DOMAIN rooms THEN
            /\ ack' = Fail("NoRoom")
            /\ emitted' = NoEmit
            /\ UNCHANGED rooms
       ELSE IF ~IsHost(socket, rooms[roomId]) THEN
            /\ ack' = Fail("NotHost")
            /\ emitted' = NoEmit
            /\ UNCHANGED rooms
       ELSE IF ~IsFinite(n) THEN
            /\ ack' = Fail("InvalidNumber")
            /\ emitted' = NoEmit
            /\ UNCHANGED rooms
       ELSE
            /\ rooms' = With(rooms, roomId,
                   [rooms[roomId] EXCEPT !.drawnNumbers = Drawn(@, n.v)])
            /\ emitted' = [event |-> "number:drawn",
                           to |-> roomId,
                           number |-> n.v,
                           drawnNumbers |-> rooms'[roomId].drawnNumbers]
            /\ ack' = [ok |-> TRUE]

-----------------------------------------------------------------------------
(* player:bingo *)

Bingo(socket, roomId, name) ==
    /\ socket \in Connected
    /\ ack' = NoAck
    /\ emitted' = IF roomId \notin DOMAIN rooms \/ rooms[roomId].hostSocketId = NoSocket
                  THEN NoEmit
                  ELSE [event |-> "player:bingo",
                        to |-> rooms[roomId].hostSocketId,
                        name |-> name]
    /\ UNCHANGED <<rooms, sockets, nextSocket, saved>>

-----------------------------------------------------------------------------
(* disconnect *)

\* the room after its host left
HostLeft(room) == [room EXCEPT !.hostSocketId = NoSocket]

\* a departure that takes the Player record with it
PlayerLeftRemoved(players, secretKey) ==
    [k \in DOMAIN players \ {secretKey} |-> players[k]]

\* the players after the one under secretKey left
PlayerLeft(players, secretKey) ==
    IF secretKey \in DOMAIN players
    THEN [players EXCEPT ![secretKey].socketId = NoSocket]
    ELSE players

\* a host's disconnect that unbinds the host of every room
DisconnectEverywhere(socket) ==
    /\ socket \in Connected
    /\ rooms' = IF sockets[socket].role = "host"
                THEN [r \in DOMAIN rooms |-> HostLeft(rooms[r])]
                ELSE rooms
    /\ emitted' = NoEmit
    /\ sockets' = [s \in Connected \ {socket} |-> sockets[s]]
    /\ ack' = NoAck
    /\ UNCHANGED <<nextSocket, saved>>

Disconnect(socket) ==
    /\ socket \in Connected
    /\ LET data == sockets[socket]
           role == data.role
           roomId == data.roomId
       IN IF role = "" \/ roomId = <<>> \/ roomId \notin DOMAIN rooms THEN
               /\ emitted' = NoEmit
               /\ UNCHANGED rooms
          ELSE IF role = "host" THEN
               /\ rooms' = With(rooms, roomId, HostLeft(rooms[roomId]))
               /\ emitted' = NoEmit
          ELSE IF role = "player" THEN
               /\ rooms' = With(rooms, roomId,
                      [rooms[roomId] EXCEPT
                          !.players = PlayerLeft(@, data.secretKey)])
               /\ emitted' = emitPlayersUpdate(rooms', roomId)
          ELSE
               /\ emitted' = NoEmit
               /\ UNCHANGED rooms
    /\ sockets' = [s \in Connected \ {socket} |-> sockets[s]]
    /\ ack' = NoAck
    /\ UNCHANGED <<nextSocket, saved>>

-----------------------------------------------------------------------------
(* The server: any connected client sends any event at any time.  The       *)
(* generators are consulted only on the paths that call Math.random().      *)

Step(in) ==
    \/ Connect
    \/ \E socket \in Connected, roomId \in in.createIds, range \in in.ranges :
         \E generated \in IF Trim(roomId) = <<>> THEN in.generatedIds ELSE {RoomA} :
            CreateRoom(socket, roomId, range[1], range[2], generated)
    \/ \E socket \in Connected, roomId \in in.roomIds, name \in in.names,
          secretKey \in in.joinKeys :
         \E generated \in IF Trim(secretKey) = <<>> THEN in.generatedKeys
                                                     ELSE {Key0} :
            JoinRoom(socket, roomId, name, secretKey, generated)
    \/ \E socket \in Connected, roomId \in in.roomIds, secretKey \in in.saveKeys,
          cardNumbers \in in.cards :
            SaveCard(socket, roomId, secretKey, cardNumbers)
    \/ \E socket \in Connected, roomId \in in.roomIds, number \in in.numbers :
            DrawNumber(socket, roomId, number)
    \/ \E socket \in Connected, roomId \in in.roomIds, name \in in.names :
            Bingo(socket, roomId, name)
    \/ \E socket \in Connected : Disconnect(socket)

Next == Step(HostInputs)
Spec == Init /\ [][Next]_vars

NextPlayers == Step(PlayerInputs)
SpecPlayers == Init /\ [][NextPlayers]_vars

NextRooms == Step(RoomInputs)
SpecRooms == Init /\ [][NextRooms]_vars

-----------------------------------------------------------------------------
(* Properties.  A step is recognised as the handling of an event by the     *)
(* handler's action holding of it.  Every handler answers in its own way,   *)
(* so each property first looks at the answer and only then goes through    *)
(* the payloads that may have caused the step.                              *)

\* the acknowledgement of a successful host:createRoom
IsCreateAck(a) == a.ok /\ "rejoin" \in DOMAIN a /\ "name" \notin DOMAIN a
\* the acknowledgement of a successful player:joinRoom
IsJoinAck(a) == a.ok /\ "secretKey" \in DOMAIN a

\* the answers host:createRoom, player:joinRoom and host:drawNumber can give
CreateRoomAnswered(a) ==
    IsCreateAck(a) \/ a = Fail("InvalidRange") \/ a = Fail("HostAlreadyPresent")
JoinRoomAnswered(a) ==
    IsJoinAck(a) \/ a = Fail("RoomNotFound") \/ a = Fail("MissingName")
DrawNumberAnswered(a) ==
    a = [ok |-> TRUE] \/ a = Fail("NoRoom") \/ a = Fail("NotHost")
        \/ a = Fail("InvalidNumber")

IsPrefix(s, t) == Len(s) <= Len(t) /\ SubSeq(t, 1, Len(s)) = s
NoDuplicates(s) == \A i, j \in 1..Len(s) : s[i] = s[j] => i = j

\* names lists the name of every Player with a socketId, once each
ListsOnline(names, players) ==
    LET online == {k \in DOMAIN players : players[k].socketId # NoSocket}
    IN /\ Len(names) = Cardinality(online)
       /\ \A k \in online : \E i \in 1..Len(names) : names[i] = players[k].name
       /\ \A i \in 1..Len(names) : \E k \in online : names[i] = players[k].name

\* C1: once the connection bound as host of room R is gone, host:createRoom
\* with id R and a valid range succeeds for any caller, as a rejoin, and
\* binds the caller as host, whatever the old host connection did before it
\* disconnected.
C1_RebindAfterHostGone ==
    [][CreateRoomAnswered(ack') =>
        \A roomId \in HostInputs.createIds :
          ( /\ Trim(roomId) \in DOMAIN rooms
            /\ rooms[Trim(roomId)].hostSocketId \notin Connected )
          => \A socket \in Connected, range \in HostInputs.ranges :
                ( /\ ValidRange(ToNumber(range[1]), ToNumber(range[2]))
                  /\ CreateRoom(socket, roomId, range[1], range[2], RoomA) )
                => /\ IsCreateAck(ack')
                   /\ ack'.rejoin
                   /\ rooms'[Trim(roomId)].hostSocketId = socket]_vars

\* C2: player:joinRoom with an omitted or blank secretKey always creates a
\* new Player record and answers rejoin:false, whatever key the generator
\* returns; no existing Player record is resumed or overwritten.
C2_BlankKeyCreatesPlayer ==
    [][IsJoinAck(ack') =>
        \A socket \in Connected, roomId \in HostInputs.roomIds,
           name \in HostInputs.names, secretKey \in {Omitted, Blank},
           generated \in HostInputs.generatedKeys :
           JoinRoom(socket, roomId, name, secretKey, generated)
           => /\ ~ack'.rejoin
              /\ ack'.secretKey \notin DOMAIN rooms[roomId].players
              /\ DOMAIN rooms'[roomId].players =
                     DOMAIN rooms[roomId].players \cup {ack'.secretKey}
              /\ \A k \in DOMAIN rooms[roomId].players :
                     rooms'[roomId].players[k] = rooms[roomId].players[k]]_vars

\* C3: drawnNumbers of every room holds no value twice, and over every step
\* the old drawnNumbers of a room is a prefix of the new.
C3_DrawnAppendOnly ==
    [][\A r \in DOMAIN rooms :
          /\ r \in DOMAIN rooms'
          /\ NoDuplicates(rooms'[r].drawnNumbers)
          /\ IsPrefix(rooms[r].drawnNumbers, rooms'[r].drawnNumbers)]_vars

\* C4: a room in the registry stays there; no step removes it or replaces it
\* with a fresh room, and no Player record leaves a room's players.
C4_RoomsPersist ==
    [][/\ \A r \in DOMAIN rooms :
             /\ r \in DOMAIN rooms'
             /\ DOMAIN rooms[r].players \subseteq DOMAIN rooms'[r].players
       /\ (IsCreateAck(ack') /\ ~ack'.rejoin)
             => ack'.room.roomId \notin DOMAIN rooms]_vars

\* C5: host:createRoom with id R while room R exists with a bound host is
\* refused for every caller, and leaves room R (and the rest of the registry)
\* and the caller's socket.data as they were.
C5_HostPresentRefused ==
    [][CreateRoomAnswered(ack') =>
        \A roomId \in HostInputs.createIds :
          ( /\ Trim(roomId) \in DOMAIN rooms
            /\ rooms[Trim(roomId)].hostSocketId # NoSocket )
          => \/ /\ ~ack'.ok
                /\ emitted' = NoEmit
                /\ rooms' = rooms
                /\ sockets' = sockets
             \/ \A socket \in Connected, range \in HostInputs.ranges :
                   ~CreateRoom(socket, roomId, range[1], range[2], RoomA)]_vars

\* a refusal while a room with a history has its host bound
C5_Witness ==
    /\ ack = Fail("HostAlreadyPresent")
    /\ \E r \in DOMAIN rooms :
          rooms[r].hostSocketId # NoSocket /\ rooms[r].drawnNumbers # <<>>

\* C6: host:drawNumber on an existing room by a connection that is not the
\* room's hostSocketId (a null hostSocketId included) is refused, changes no
\* drawnNumbers and emits nothing; so every change of a room's drawnNumbers
\* is a draw sent by the connection bound as its host at that moment.
C6_OnlyHostDraws ==
    [][/\ DrawNumberAnswered(ack') =>
            \A socket \in Connected, roomId \in HostInputs.roomIds,
               number \in HostInputs.numbers :
               ( /\ roomId \in DOMAIN rooms
                 /\ socket # rooms[roomId].hostSocketId
                 /\ DrawNumber(socket, roomId, number) )
               => /\ ~ack'.ok
                  /\ emitted' = NoEmit
                  /\ rooms'[roomId].drawnNumbers = rooms[roomId].drawnNumbers
       /\ \A r \in DOMAIN rooms \cap DOMAIN rooms' :
             rooms'[r].drawnNumbers # rooms[r].drawnNumbers
             => \E number \in HostInputs.numbers :
                   DrawNumber(rooms[r].hostSocketId, r, number)]_vars

\* C7: host:drawNumber by the bound host with a number already drawn answers
\* ok:true, changes nothing in the registry and still emits number:drawn with
\* the number and the whole history to the room; with a new number it appends
\* exactly that number at the end.
C7_DrawIdempotent ==
    [][DrawNumberAnswered(ack') =>
        \A roomId \in HostInputs.roomIds, number \in HostInputs.numbers :
          ( /\ roomId \in DOMAIN rooms
            /\ IsFinite(ToNumber(number))
            /\ DrawNumber(rooms[roomId].hostSocketId, roomId, number) )
          => LET n == ToNumber(number).v
                 old == rooms[roomId].drawnNumbers
                 new == IF Includes(old, n) THEN old ELSE old \o <<n>>
             IN /\ ack' = [ok |-> TRUE]
                /\ Includes(old, n) => rooms' = rooms
                /\ rooms' = With(rooms, roomId,
                                 [rooms[roomId] EXCEPT !.drawnNumbers = new])
                /\ emitted' = [event |-> "number:drawn", to |-> roomId,
                               number |-> n, drawnNumbers |-> new]]_vars

\* a number drawn again that is not the last of a history of two
C7_Witness ==
    /\ emitted.event = "number:drawn"
    /\ Len(emitted.drawnNumbers) = 2
    /\ emitted.number = emitted.drawnNumbers[1]

\* what C8 says of a step that joins roomId as secretKey from socket
Resumed(socket, roomId, name, secretKey) ==
    /\ IsJoinAck(ack')
    /\ ack'.rejoin
    /\ ack'.cardNumbers = saved[<<roomId, secretKey>>]
    /\ rooms' = With(rooms, roomId,
           [rooms[roomId] EXCEPT
               !.players[secretKey] = [@ EXCEPT !.name = name,
                                               !.socketId = socket]])

\* C8, as claimed: player:joinRoom on room R with a secretKey that, trimmed,
\* keys a Player in R answers rejoin:true, leaves the number of Player records as it
\* was, changes only that record's name and socketId, and returns the
\* cardNumbers last saved for the record, or null if none was.
C8_KnownKeyResumes ==
    [][JoinRoomAnswered(ack') =>
        \A roomId \in PlayerInputs.roomIds, secretKey \in PlayerInputs.joinKeys :
          ( /\ roomId \in DOMAIN rooms
            /\ Trim(secretKey) \in DOMAIN rooms[roomId].players )
          => \A socket \in Connected, name \in PlayerInputs.names :
                JoinRoom(socket, roomId, name, secretKey, Key0)
                => Resumed(socket, roomId, name, Trim(secretKey))]_vars

\* C8, amended: the same of a join whose name is not empty or blank.
C8_KnownKeyResumesNamed ==
    [][JoinRoomAnswered(ack') =>
        \A roomId \in PlayerInputs.roomIds, secretKey \in PlayerInputs.joinKeys :
          ( /\ roomId \in DOMAIN rooms
            /\ Trim(secretKey) \in DOMAIN rooms[roomId].players )
          => \A socket \in Connected, name \in PlayerInputs.names :
                ( /\ Trim(name) # <<>>
                  /\ JoinRoom(socket, roomId, name, secretKey, Key0) )
                => Resumed(socket, roomId, name, Trim(secretKey))]_vars

\* a rejoin that returns a saved card, in a room of two Players
C8_Witness ==
    /\ IsJoinAck(ack)
    /\ ack.rejoin
    /\ ack.cardNumbers # JsNull
    /\ \E r \in DOMAIN rooms : Cardinality(DOMAIN rooms[r].players) = 2

\* the room host:createRoom makes for socket under id
FreshRoom(id, socket, range) ==
    [roomId |-> id,
     hostSocketId |-> socket,
     minNumber |-> ToNumber(range[1]).v,
     maxNumber |-> ToNumber(range[2]).v,
     drawnNumbers |-> <<>>,
     players |-> <<>>]

C10_RejoinKeepsGame ==
    [][IsCreateAck(ack') =>
        \A roomId \in HostInputs.createIds :
          ( /\ Trim(roomId) \in DOMAIN rooms
            /\ rooms[Trim(roomId)].hostSocketId = NoSocket )
          => \A socket \in Connected, range \in HostInputs.ranges :
                CreateRoom(socket, roomId, range[1], range[2], RoomA)
                => LET id == Trim(roomId)
                   IN /\ ack'.rejoin
                      /\ rooms' = With(rooms, id,
                             [rooms[id] EXCEPT
                                 !.hostSocketId = socket,
                                 !.minNumber = ToNumber(range[1]).v,
                                 !.maxNumber = ToNumber(range[2]).v])
                      /\ ack'.room = rooms'[id]
                      /\ emitted'.event = "room:playersUpdate"
                      /\ emitted'.to = socket
                      /\ ListsOnline(emitted'.names, rooms[id].players)]_vars

\* a rejoin of a room with a history and a Player online, under a new range
C10_Witness ==
    /\ IsCreateAck(ack)
    /\ ack.rejoin
    /\ ack.room.drawnNumbers # <<>>
    /\ ack.room.maxNumber = 1
    /\ emitted.event = "room:playersUpdate"
    /\ emitted.names # <<>>

\* C11: every handler that answers with a negative acknowledgement leaves
\* the registry and every socket.data as they were and emits nothing.
C11_RefusalChangesNothing ==
    [][(~ack'.ok /\ ack' # NoAck)
        => /\ rooms' = rooms
           /\ sockets' = sockets
           /\ emitted' = NoEmit]_vars

\* a join refused for an unknown room while a game is under way
C11_Witness ==
    /\ ack = Fail("RoomNotFound")
    /\ \E r \in DOMAIN rooms :
          rooms[r].drawnNumbers # <<>> /\ rooms[r].players # <<>>

\* what C12 says of a step: a join is answered with the room's history, a
\* number:drawn carries the room's history, and no history changes under a
\* connected player of the room without a number:drawn that carries it
HistoryShown ==
    /\ IsJoinAck(ack')
          => ack'.room.drawnNumbers = rooms'[ack'.room.roomId].drawnNumbers
    /\ emitted'.event = "number:drawn"
          => emitted'.drawnNumbers = rooms'[emitted'.to].drawnNumbers
    /\ \A s \in Connected \cap DOMAIN sockets' :
          LET r == sockets[s].roomId
          IN ( /\ sockets[s].role = "player"
               /\ sockets'[s] = sockets[s]
               /\ r \in DOMAIN rooms
               /\ rooms'[r].drawnNumbers # rooms[r].drawnNumbers )
             => /\ emitted'.event = "number:drawn"
                /\ emitted'.to = r
                /\ emitted'.drawnNumbers = rooms'[r].drawnNumbers

\* C12: the history in a successful player:joinRoom ack is the room's
\* drawnNumbers, every number:drawn carries the room's drawnNumbers as they
\* are after the draw, and so the last history a player that joined a room
\* and stayed connected has seen is the room's drawnNumbers.
C12_HistorySeen == [][HistoryShown]_vars

\* C13: in every reachable state every hostSocketId and every Player's
\* socketId is null or the id of a socket that is still connected.
C13_ReferencesLive ==
    \A r \in DOMAIN rooms :
       /\ rooms[r].hostSocketId \in Connected \cup {NoSocket}
       /\ \A k \in DOMAIN rooms[r].players :
             rooms[r].players[k].socketId \in Connected \cup {NoSocket}

\* C14: the disconnect of socket c sets a Player's socketId to null only if
\* that socketId is c; a Player bound to another socket stays online.
C14_OnlyOwnPlayerLeaves ==
    [][\A c \in Connected \ DOMAIN sockets' :
          Disconnect(c)
          => \A r \in DOMAIN rooms \cap DOMAIN rooms' :
                \A k \in DOMAIN rooms[r].players \cap DOMAIN rooms'[r].players :
                   ( /\ rooms[r].players[k].socketId # NoSocket
                     /\ rooms'[r].players[k].socketId = NoSocket )
                   => rooms[r].players[k].socketId = c]_vars

\* C15: the disconnect of socket c sets a room's hostSocketId to null only
\* if that hostSocketId is c; it never unbinds another socket that is the
\* room's host.
C15_OnlyOwnHostLeaves ==
    [][\A c \in Connected \ DOMAIN sockets' :
          Disconnect(c)
          => \A r \in DOMAIN rooms \cap DOMAIN rooms' :
                ( /\ rooms[r].hostSocketId # NoSocket
                  /\ rooms'[r].hostSocketId = NoSocket )
                => rooms[r].hostSocketId = c]_vars

\* C16: in every reachable state every element of a room's drawnNumbers lies
\* within the room's minNumber and maxNumber.
C16_DrawnWithinRange ==
    \A r \in DOMAIN rooms :
       \A i \in 1..Len(rooms[r].drawnNumbers) :
          /\ rooms[r].minNumber <= rooms[r].drawnNumbers[i]
          /\ rooms[r].drawnNumbers[i] <= rooms[r].maxNumber

\* what emitPlayersUpdate owes room r after a step: the names of the Players
\* with a socketId, to the hostSocketId; or nothing if there is none
UpdateSent(r) ==
    IF rooms'[r].hostSocketId = NoSocket
    THEN emitted' = NoEmit
    ELSE /\ emitted'.event = "room:playersUpdate"
         /\ emitted'.to = rooms'[r].hostSocketId
         /\ ListsOnline(emitted'.names, rooms'[r].players)

\* C17: a room:playersUpdate goes to the hostSocketId of a room and lists
\* exactly the Players of that room with a non-null socketId; none is sent
\* for a room without hostSocketId; one is sent after every successful
\* player:joinRoom and every disconnect of a socket with role player in a room
\* with a hostSocketId.
C17_PlayersUpdateToHost ==
    [][/\ emitted'.event = "room:playersUpdate"
            => \E r \in DOMAIN rooms' :
                  /\ rooms'[r].hostSocketId # NoSocket
                  /\ UpdateSent(r)
       /\ IsJoinAck(ack') => UpdateSent(ack'.room.roomId)
       /\ \A c \in Connected \ DOMAIN sockets' :
             (sockets[c].role = "player" /\ sockets[c].roomId \in DOMAIN rooms)
             => UpdateSent(sockets[c].roomId)]_vars

\* the update after a player left: one of two Players is listed
C17_Witness ==
    /\ ack = NoAck
    /\ emitted.event = "room:playersUpdate"
    /\ Len(emitted.names) = 1
    /\ \E r \in DOMAIN rooms :
          /\ Cardinality(DOMAIN rooms[r].players) = 2
          /\ rooms[r].hostSocketId = emitted.to

\* what C18 says of the registry and the emission when socket c disconnects
DisconnectedOnly(c) ==
    LET role == sockets[c].role
        r == sockets[c].roomId
        k == sockets[c].secretKey
    IN IF role = "" \/ r = <<>> \/ r \notin DOMAIN rooms THEN
            rooms' = rooms /\ emitted' = NoEmit
       ELSE IF role = "host" THEN
            /\ rooms' = With(rooms, r, [rooms[r] EXCEPT !.hostSocketId = NoSocket])
            /\ emitted' = NoEmit
       ELSE IF k \in DOMAIN rooms[r].players THEN
            rooms' = With(rooms, r,
                          [rooms[r] EXCEPT !.players[k].socketId = NoSocket])
       ELSE rooms' = rooms

\* C18: a disconnect changes at most one reference of the registry: for role
\* host the hostSocketId of the socket's room becomes null and nothing is
\* emitted; for role player the socketId of the socket's Player becomes null,
\* the record, its name and its cardNumbers staying; without role or room the
\* registry is unchanged.
C18_DisconnectClearsOneReference ==
    [][\A c \in Connected \ DOMAIN sockets' :
          Disconnect(c) => DisconnectedOnly(c)]_vars

\* after the disconnect of a player that had saved a card
C18_Witness ==
    /\ ack = NoAck
    /\ emitted.event = "room:playersUpdate"
    /\ emitted.names = <<>>
    /\ \E r \in DOMAIN rooms : \E k \in DOMAIN rooms[r].players :
          /\ rooms[r].players[k].socketId = NoSocket
          /\ rooms[r].players[k].cardNumbers # JsNull
          /\ rooms[r].drawnNumbers # <<>>

\* the answers of player:saveCard
SaveCardAnswered(a) == a = [ok |-> TRUE] \/ a = [ok |-> FALSE]

\* C19: player:saveCard on an existing room and an existing key answers
\* ok:true and replaces the Player's cardNumbers with the payload, whatever
\* they were (the last save wins), changing nothing else; the same save again
\* changes nothing.
C19_SaveCardOverwrites ==
    [][SaveCardAnswered(ack') =>
        \A roomId \in PlayerInputs.roomIds, secretKey \in PlayerInputs.saveKeys :
          ( /\ roomId \in DOMAIN rooms
            /\ secretKey \in DOMAIN rooms[roomId].players )
          => \A socket \in Connected, cardNumbers \in PlayerInputs.cards :
                SaveCard(socket, roomId, secretKey, cardNumbers)
                => LET old == rooms[roomId].players[secretKey]
                       new == rooms'[roomId].players[secretKey]
                   IN /\ ack' = [ok |-> TRUE]
                      /\ emitted' = NoEmit
                      /\ sockets' = sockets
                      /\ rooms' = With(rooms, roomId,
                            [rooms[roomId] EXCEPT
                                !.players[secretKey].cardNumbers = cardNumbers])
                      /\ SavedPlayer(new, cardNumbers) = new
                      /\ \A other \in PlayerInputs.cards :
                            SavedPlayer(new, other) = SavedPlayer(old, other)]_vars

\* after a save, in a room of two Players with different cards
C19_Witness ==
    /\ ack = [ok |-> TRUE]
    /\ emitted = NoEmit
    /\ \E r \in DOMAIN rooms :
          /\ DOMAIN rooms[r].players = {Key0, Key1}
          /\ rooms[r].players[Key0].cardNumbers # JsNull
          /\ rooms[r].players[Key1].cardNumbers # JsNull
          /\ rooms[r].players[Key0].cardNumbers # rooms[r].players[Key1].cardNumbers

\* every room but r is after the step what it was before
OtherRoomsUnchanged(r) ==
    /\ DOMAIN rooms \ {r} = DOMAIN rooms' \ {r}
    /\ \A q \in DOMAIN rooms \ {r} : rooms'[q] = rooms[q]

\* C20: every handler leaves every room but one as it was: the room its
\* payload names (for host:createRoom without id, the room of the generated
\* id), and for a disconnect the room in the socket's socket.data.
C20_OneRoomTouched ==
    [][rooms' # rooms =>
        /\ \A socket \in Connected, roomId \in RoomInputs.createIds,
              range \in RoomInputs.ranges, generated \in RoomInputs.generatedIds :
              CreateRoom(socket, roomId, range[1], range[2], generated)
              => OtherRoomsUnchanged(IF Trim(roomId) # <<>> THEN Trim(roomId)
                                                            ELSE generated)
        /\ \A socket \in Connected, roomId \in RoomInputs.roomIds :
              /\ \A name \in RoomInputs.names, secretKey \in RoomInputs.joinKeys,
                    generated \in RoomInputs.generatedKeys :
                    JoinRoom(socket, roomId, name, secretKey, generated)
                    => OtherRoomsUnchanged(roomId)
              /\ \A secretKey \in RoomInputs.saveKeys,
                    cardNumbers \in RoomInputs.cards :
                    SaveCard(socket, roomId, secretKey, cardNumbers)
                    => OtherRoomsUnchanged(roomId)
              /\ \A number \in RoomInputs.numbers :
                    DrawNumber(socket, roomId, number)
                    => OtherRoomsUnchanged(roomId)
              /\ \A name \in RoomInputs.names :
                    Bingo(socket, roomId, name) => OtherRoomsUnchanged(roomId)
        /\ \A c \in Connected \ DOMAIN sockets' :
              Disconnect(c) => OtherRoomsUnchanged(sockets[c].roomId)]_vars

\* a draw in one of two rooms that both have a host and a history
C20_Witness ==
    /\ emitted.event = "number:drawn"
    /\ DOMAIN rooms = {RoomA, RoomB}
    /\ \A r \in DOMAIN rooms :
          rooms[r].drawnNumbers # <<>> /\ rooms[r].hostSocketId # NoSocket

====
